---- MODULE Spec2Model ----
(***************************************************************************)
(* A model of the object graph core of ouisync: the reference counted      *)
(* object store, Snapshot (src/src/snapshot.cpp), RemoteBranch             *)
(* (src/src/remote_branch.cpp) and Branch::RootOp (src/src/branch/         *)
(* root_op.h).  Three specifications share the module, one per component:  *)
(* SpecSnapshot, SpecRemote and SpecRoot.                                  *)
(***************************************************************************)
EXTENDS Integers, FiniteSets, Sequences, TLC

VARIABLES
    \* the object DAG (content addressing: an id determines its children)
    tree_children,
    \* the shared object store: blocks present in objdir, refcount records
    objdir, rc, fault,
    \* Snapshot
    nodes, phase, rc0, delivered, topo,
    \* the Snapshot that clone() returned
    clone_nodes, clone_phase, rc1, clone_fresh,
    \* RemoteBranch (one per remote user)
    rb_commit, missing_objects, incomplete_objects, complete_objects,
    rb_result, rb_introduced, rb_inserted,
    \* Branch::RootOp and the Index
    block_store, edges, commits, rootop, ret, steps, ncommits

store_vars == <<tree_children, objdir, rc, fault>>
snap_vars == <<nodes, phase, rc0, delivered, topo,
               clone_nodes, clone_phase, rc1, clone_fresh>>
rb_vars == <<rb_commit, missing_objects, incomplete_objects, complete_objects,
                rb_result, rb_introduced, rb_inserted>>
root_vars == <<block_store, edges, commits, rootop, ret, steps, ncommits>>
vars == <<store_vars, snap_vars, rb_vars, root_vars>>

(***************************************************************************)
(* Object ids of the snapshot / remote branch models.  Ids are ordered as  *)
(* ObjectId is (std::set and std::map iterate in ascending order).         *)
(***************************************************************************)
Objects == {1, 2, 3, 4}

\* The acyclic children relations over Objects: an object's id is the hash of
\* its content, so a child's id is fixed before its parent's (child > parent
\* numbers the objects root first).
Dags == {d \in [Objects -> SUBSET Objects] : \A o \in Objects : \A c \in d[o] : c > o}

Min(S) == CHOOSE x \in S : \A y \in S : x <= y

RECURSIVE Descendants(_, _)
Descendants(d, o) == d[o] \cup UNION {Descendants(d, c) : c \in d[o]}

ZeroRc == [o \in Objects |-> [direct |-> 0, recursive |-> 0]]

(***************************************************************************)
(* ObjectStore refcounts (refcount.h is not among the sources; the         *)
(* operations follow section 4.3 of the specification).  A state s of the  *)
(* store is a record with fields objdir, rc and fault; a handler threads   *)
(* it through its calls, and a fault ends the handler.                     *)
(***************************************************************************)
Raise(s, f) == IF s.fault = "none" THEN [s EXCEPT !.fault = f] ELSE s

\* object::io::store: write the block if absent; refcounts untouched
StoreBlock(s, id) == [s EXCEPT !.objdir = @ \cup {id}]

\* object::io::remove: the block and its refcount record go together
RemoveBlock(s, id) == [s EXCEPT !.objdir = @ \ {id}]

IncrementDirect(s, id) ==
    IF s.fault # "none" THEN s
    ELSE [s EXCEPT !.rc[id].direct = @ + 1]

DecrementDirect(s, id) ==
    IF s.fault # "none" THEN s
    ELSE IF s.rc[id].direct = 0 THEN Raise(s, "RefcountUnderflow")
    ELSE [s EXCEPT !.rc[id].direct = @ - 1]

RECURSIVE IncrementRecursive(_, _)
RECURSIVE IncrementRecursiveEach(_, _)
\* on the transition 0 -> positive the increment recurses into the children
\* found by loading the object; a child that is not stored has no record yet
IncrementRecursive(s, id) ==
    IF s.fault # "none" THEN s
    ELSE LET s1 == [s EXCEPT !.rc[id].recursive = @ + 1]
         IN  IF s.rc[id].recursive = 0 /\ id \in s.objdir
             THEN IncrementRecursiveEach(s1, {c \in tree_children[id] : c \in s.objdir})
             ELSE s1

IncrementRecursiveEach(s, ids) ==
    IF ids = {} THEN s
    ELSE IncrementRecursiveEach(IncrementRecursive(s, Min(ids)), ids \ {Min(ids)})

BothAreZero(s, id) == s.rc[id].direct = 0 /\ s.rc[id].recursive = 0

FlatRemove(s, id) ==
    IF s.fault # "none" THEN s
    ELSE LET s1 == DecrementDirect(s, id)
         IN  IF s1.fault = "none" /\ BothAreZero(s1, id) THEN RemoveBlock(s1, id) ELSE s1

RECURSIVE DeepRemove(_, _)
RECURSIVE DeepRemoveEach(_, _)
\* decrement recursive; on the transition to zero cascade into the children,
\* and delete the block when both counts are zero
DeepRemove(s, id) ==
    IF s.fault # "none" THEN s
    ELSE IF s.rc[id].recursive = 0 THEN Raise(s, "RefcountUnderflow")
    ELSE LET s1 == [s EXCEPT !.rc[id].recursive = @ - 1]
         IN  IF s1.rc[id].recursive > 0 THEN s1
             ELSE LET s2 == DeepRemoveEach(s1, tree_children[id])
                  IN  IF s2.fault = "none" /\ BothAreZero(s2, id)
                      THEN RemoveBlock(s2, id) ELSE s2

DeepRemoveEach(s, ids) ==
    IF ids = {} THEN s
    ELSE DeepRemoveEach(DeepRemove(s, Min(ids)), ids \ {Min(ids)})

\* object::io::is_complete
IsCompleteObject(s, id) == id \in s.objdir /\ s.rc[id].recursive > 0

(***************************************************************************)
(* Snapshot (src/src/snapshot.cpp).  A handler's state s has the store's   *)
(* fields and nodes, the map _nodes.                                       *)
(***************************************************************************)
MissingNode == [type |-> "Missing", parents |-> {},
                children |-> [missing |-> {}, incomplete |-> {}, complete |-> {}]]

\* Node::is_complete
NodeIsComplete(n) == n.children.missing = {} /\ n.children.incomplete = {}

\* _nodes.erase(id)
EraseNode(ns, id) == [k \in DOMAIN ns \ {id} |-> ns[k]]

\* _nodes.insert({child_id, {Missing, {}, {}}}) and parents.insert(id)
AddParent(ns, child, id) ==
    [k \in DOMAIN ns \cup {child} |->
        LET n == IF k \in DOMAIN ns THEN ns[k] ELSE MissingNode
        IN  IF k = child THEN [n EXCEPT !.parents = @ \cup {id}] ELSE n]

RECURSIVE AddParentEach(_, _, _)
AddParentEach(ns, chs, id) ==
    IF chs = {} THEN ns
    ELSE AddParentEach(AddParent(ns, Min(chs), id), chs \ {Min(chs)}, id)

\* Snapshot::sort_children
sort_children(s, chs) ==
    [missing    |-> {c \in chs : c \notin s.objdir},
     complete   |-> {c \in chs : c \in s.objdir /\ s.rc[c].recursive > 0},
     incomplete |-> {c \in chs : c \in s.objdir /\ s.rc[c].recursive = 0}]

InsertedType_Complete(chs) == "Complete"

\* the type a freshly inserted node gets (snapshot.cpp line 200)
InsertedType(chs) == IF chs = {} THEN "Complete" ELSE "Incomplete"

\* the node notify_parent_that_child_completed erases once the parent is complete
ErasedOnCompletion(parent_id, child) == child

RECURSIVE notify_parent_that_child_completed(_, _, _)
RECURSIVE NotifyEach(_, _, _)
notify_parent_that_child_completed(s, parent_id, child) ==
    IF s.fault # "none" THEN s
    ELSE IF parent_id \notin DOMAIN s.nodes THEN Raise(s, "out_of_range")
    ELSE LET parent == s.nodes[parent_id]
             cnt == (IF child \in parent.children.missing THEN 1 ELSE 0)
                    + (IF child \in parent.children.incomplete THEN 1 ELSE 0)
             moved == [parent EXCEPT !.children.missing = @ \ {child},
                                     !.children.incomplete = @ \ {child},
                                     !.children.complete = @ \cup {child}]
             s1 == [s EXCEPT !.nodes[parent_id] = moved]
         IN  IF cnt # 1 THEN Raise(s1, "assert_cnt")
             ELSE IF ~NodeIsComplete(moved) THEN s1
             ELSE LET s2 == IncrementRecursive(DecrementDirect(s1, parent_id), parent_id)
                  IN  IF s2.fault # "none" THEN s2
                      ELSE IF parent.type # "Incomplete" THEN Raise(s2, "assert_type")
                      ELSE LET s3 == [s2 EXCEPT !.nodes[parent_id].type = "Complete"]
                               s4 == NotifyEach(s3, parent.parents, parent_id)
                           IN  IF s4.fault # "none" THEN s4
                               ELSE [s4 EXCEPT !.nodes =
                                        EraseNode(@, ErasedOnCompletion(parent_id, child))]

NotifyEach(s, parents, child) ==
    IF parents = {} THEN s
    ELSE NotifyEach(notify_parent_that_child_completed(s, Min(parents), child),
                    parents \ {Min(parents)}, child)

NotExpected_KeyOnly(s, id) == id \notin DOMAIN s.nodes

\* snapshot.cpp line 196: the id is no key of _nodes, or its node is not Missing
NotExpected(s, id) == id \notin DOMAIN s.nodes \/ s.nodes[id].type # "Missing"

\* Snapshot::insert_object
insert_object(s, id, children) ==
    IF NotExpected(s, id) THEN s
    ELSE LET node == [s.nodes[id] EXCEPT !.type = InsertedType(children),
                                         !.children = sort_children(s, children)]
             s1 == [s EXCEPT !.nodes = AddParentEach([@ EXCEPT ![id] = node], children, id)]
         IN  IF NodeIsComplete(node)
             THEN NotifyEach(IncrementRecursive(s1, id), node.parents, id)
             ELSE IncrementDirect(s1, id)

\* Snapshot::forget
RECURSIVE ForgetEach(_, _, _)
ForgetEach(s, ns, ids) ==
    IF ids = {} THEN s
    ELSE LET id == Min(ids)
             s1 == CASE ns[id].type = "Complete"   -> DeepRemove(s, id)
                     [] ns[id].type = "Incomplete" -> FlatRemove(s, id)
                     [] OTHER                      -> s
         IN  ForgetEach(s1, ns, ids \ {id})

forget(s) == ForgetEach([s EXCEPT !.nodes = << >>], s.nodes, DOMAIN s.nodes)

\* c._nodes.insert({id, node}): std::map::insert keeps the node of a key it holds
NodesInsert(ns, id, node) ==
    [k \in DOMAIN ns \cup {id} |-> IF k \in DOMAIN ns THEN ns[k] ELSE node]

\* the loop of Snapshot::clone; c holds the store and the clone's _nodes
RECURSIVE CloneEach(_, _, _)
CloneEach(c, ns, ids) ==
    IF ids = {} THEN c
    ELSE LET id == Min(ids)
             c1 == [c EXCEPT !.nodes = NodesInsert(@, id, ns[id])]
             c2 == CASE ns[id].type = "Complete"   -> IncrementRecursive(c1, id)
                     [] ns[id].type = "Incomplete" -> IncrementDirect(c1, id)
                     [] OTHER                      -> c1
         IN  CloneEach(c2, ns, ids \ {id})

\* Snapshot::clone: the clone is constructed over the same commit, then filled
clone(s, root_id) ==
    CloneEach([s EXCEPT !.nodes = [k \in {root_id} |-> MissingNode]], s.nodes, DOMAIN s.nodes)

(***************************************************************************)
(* The Snapshot specification: one Snapshot of the commit whose root is    *)
(* Root, over a store in which another holder may have pinned one complete *)
(* subtree before the Snapshot was created.                                *)
(***************************************************************************)
Root == 1

EmptyStore == [objdir |-> {}, rc |-> ZeroRc, fault |-> "none"]

Store == [objdir |-> objdir, rc |-> rc, fault |-> fault]

\* the store after a holder pinned the complete subtree of p recursively
PinnedStore(d, p) ==
    IncrementRecursive([EmptyStore EXCEPT !.objdir = {p} \cup Descendants(d, p)], p)

Parents(id) == {p \in Objects : id \in tree_children[p]}

InCommit(id) == id = Root \/ id \in Descendants(tree_children, Root)

StoreIdle ==
    /\ tree_children = [o \in Objects |-> {}]
    /\ objdir = {}
    /\ rc = ZeroRc
    /\ fault = "none"

NoClone ==
    /\ clone_nodes = << >>
    /\ clone_phase = "none"
    /\ rc1 = ZeroRc
    /\ clone_fresh = FALSE

SnapshotIdle ==
    /\ nodes = << >>
    /\ phase = "none"
    /\ rc0 = ZeroRc
    /\ delivered = {}
    /\ topo = TRUE
    /\ NoClone

\* Snapshot::Snapshot: _nodes holds the commit's root, Missing
InitSnapshotVars ==
    /\ nodes = [k \in {Root} |-> MissingNode]
    /\ phase = "live"
    /\ rc0 = rc
    /\ delivered = {}
    /\ topo = TRUE
    /\ NoClone

\* an object arrives: its block is stored, then Snapshot::insert_object runs
SnapshotDeliver(id) ==
    /\ phase = "live"
    /\ fault = "none"
    /\ LET s0 == [objdir |-> objdir, rc |-> rc, fault |-> fault, nodes |-> nodes]
           s1 == insert_object(StoreBlock(s0, id), id, tree_children[id])
       IN  /\ objdir' = s1.objdir
           /\ rc' = s1.rc
           /\ fault' = s1.fault
           /\ nodes' = s1.nodes
    /\ topo' = (topo /\ InCommit(id) /\ id \notin delivered
                     /\ \A p \in Parents(id) : InCommit(p) => p \in delivered)
    /\ delivered' = delivered \cup {id}
    /\ clone_fresh' = FALSE
    /\ UNCHANGED <<tree_children, phase, rc0, clone_nodes, clone_phase, rc1>>

\* Snapshot::~Snapshot
SnapshotForget ==
    /\ phase = "live"
    /\ fault = "none"
    /\ LET s0 == [objdir |-> objdir, rc |-> rc, fault |-> fault, nodes |-> nodes]
           s1 == forget(s0)
       IN  /\ objdir' = s1.objdir
           /\ rc' = s1.rc
           /\ fault' = s1.fault
           /\ nodes' = s1.nodes
    /\ phase' = "forgotten"
    /\ clone_fresh' = FALSE
    /\ UNCHANGED <<tree_children, rc0, delivered, topo, clone_nodes, clone_phase, rc1>>

\* Snapshot::clone of the live Snapshot
SnapshotClone ==
    /\ phase = "live"
    /\ clone_phase = "none"
    /\ fault = "none"
    /\ LET s0 == [objdir |-> objdir, rc |-> rc, fault |-> fault, nodes |-> nodes]
           c == clone(s0, Root)
       IN  /\ objdir' = c.objdir
           /\ rc' = c.rc
           /\ fault' = c.fault
           /\ clone_nodes' = c.nodes
    /\ clone_phase' = "live"
    /\ rc1' = rc
    /\ clone_fresh' = TRUE
    /\ UNCHANGED <<tree_children, nodes, phase, rc0, delivered, topo>>

\* the destructor of the clone
SnapshotCloneForget ==
    /\ clone_phase = "live"
    /\ fault = "none"
    /\ LET s0 == [objdir |-> objdir, rc |-> rc, fault |-> fault, nodes |-> clone_nodes]
           s1 == forget(s0)
       IN  /\ objdir' = s1.objdir
           /\ rc' = s1.rc
           /\ fault' = s1.fault
           /\ clone_nodes' = s1.nodes
    /\ clone_phase' = "forgotten"
    /\ UNCHANGED <<tree_children, nodes, phase, rc0, delivered, topo, rc1, clone_fresh>>

(***************************************************************************)
(* RemoteBranch (src/src/remote_branch.cpp).  The maps _missing_objects    *)
(* and _incomplete_objects are functions on the set of their keys.  A      *)
(* handler's state r has the store's fields, the three collections of the  *)
(* branch and result, the error the call ends with.                        *)
(***************************************************************************)
Branches == {1, 2}

\* the roots of the commits a peer announces
CommitRoots == {1, 2}

MaxIntroduce == 2

\* map.erase(key)
MapErase(m, k) == [x \in DOMAIN m \ {k} |-> m[x]]

\* map.insert({key, value}): no effect when the key is present
MapInsert(m, k, v) == [x \in DOMAIN m \cup {k} |-> IF x \in DOMAIN m THEN m[x] ELSE v]

\* _missing_objects[child].insert(id)
MissingAdd(m, child, id) ==
    [x \in DOMAIN m \cup {child} |->
        IF x = child THEN (IF x \in DOMAIN m THEN m[x] ELSE {}) \cup {id} ELSE m[x]]

RECURSIVE MissingAddEach(_, _, _)
MissingAddEach(m, chs, id) ==
    IF chs = {} THEN m
    ELSE MissingAddEach(MissingAdd(m, Min(chs), id), chs \ {Min(chs)}, id)

\* RemoteBranch::filter_missing: drop the children the object store holds
filter_missing(r, objs) == {o \in objs : o \notin r.objdir}

\* _flat_store: object::io::store, then refcount::increment_recursive
flat_store(r, id) == IncrementRecursive(StoreBlock(r, id), id)

\* one round of the loop of lines 92-103, for one parent of the leaf id
PromoteParent(r, parent, id) ==
    IF r.result # "ok" THEN r
    ELSE IF parent \notin DOMAIN r.incomplete THEN [r EXCEPT !.result = "out_of_range"]
    ELSE LET missing_children == r.incomplete[parent] \ {id}
         IN  IF missing_children = {}
             THEN [r EXCEPT !.incomplete = MapErase(@, parent),
                            !.complete = (@ \cup {parent}) \ {id}]
             ELSE [r EXCEPT !.incomplete[parent] = missing_children]

RECURSIVE PromoteParents(_, _, _)
PromoteParents(r, parents, id) ==
    IF parents = {} THEN r
    ELSE PromoteParents(PromoteParent(r, Min(parents), id), parents \ {Min(parents)}, id)

Unexpected_AfterStore(r, id) == [flat_store(r, id) EXCEPT !.result = "out_of_range"]

\* remote_branch.cpp line 85: _missing_objects.at(id) throws, before any change
Unexpected(r, id) == [r EXCEPT !.result = "out_of_range"]

\* RemoteBranch::insert_object
rb_insert_object(r, id, children) ==
    IF id \notin DOMAIN r.missing THEN Unexpected(r, id)
    ELSE LET parents == r.missing[id]
             r1 == [r EXCEPT !.missing = MapErase(@, id)]
             r2 == IF children = {}
                   THEN PromoteParents([r1 EXCEPT !.complete = @ \cup {id}], parents, id)
                   ELSE LET filtered == filter_missing(r1, children)
                            r3 == [r1 EXCEPT !.missing = MissingAddEach(@, filtered, id)]
                        IN  IF filtered = {}
                            THEN [r3 EXCEPT !.complete = @ \cup {id}]
                            ELSE [r3 EXCEPT !.incomplete = MapInsert(@, id, filtered)]
         IN  IF r2.result # "ok" THEN r2 ELSE flat_store(r2, id)

RECURSIVE FlatRemoveEach(_, _)
FlatRemoveEach(s, ids) ==
    IF ids = {} THEN s
    ELSE FlatRemoveEach(FlatRemove(s, Min(ids)), ids \ {Min(ids)})

\* RemoteBranch::introduce_commit
introduce_commit(r, root_id) ==
    LET incomplete_ids == DOMAIN r.incomplete
        complete_ids == r.complete
        r1 == [r EXCEPT !.missing = << >>, !.incomplete = << >>, !.complete = {}]
        r2 == DeepRemoveEach(FlatRemoveEach(r1, incomplete_ids), complete_ids)
    IN  IF r2.fault # "none" THEN r2
        ELSE [r2 EXCEPT !.missing = [k \in {root_id} |-> {}]]

\* RemoteBranch::sanity_check: TRUE when both loops pass every assertion
sanity_check(r) ==
    /\ \A id \in DOMAIN r.incomplete : id \in r.objdir
    /\ \A id \in r.complete : IsCompleteObject(r, id)

BranchState(b) ==
    [objdir |-> objdir, rc |-> rc, fault |-> fault, result |-> "ok",
     missing |-> missing_objects[b], incomplete |-> incomplete_objects[b],
     complete |-> complete_objects[b]]

RemoteIdle ==
    /\ rb_commit = [b \in Branches |-> 0]
    /\ missing_objects = [b \in Branches |-> << >>]
    /\ incomplete_objects = [b \in Branches |-> << >>]
    /\ complete_objects = [b \in Branches |-> {}]
    /\ rb_result = "ok"
    /\ rb_introduced = 0
    /\ rb_inserted = [b \in Branches |-> {}]

\* RemoteBranch::RemoteBranch(commit, ...): branch b receives the commit rooted at b
InitRemoteVars ==
    /\ rb_commit = [b \in Branches |-> b]
    /\ missing_objects = [b \in Branches |-> [k \in {b} |-> {}]]
    /\ incomplete_objects = [b \in Branches |-> << >>]
    /\ complete_objects = [b \in Branches |-> {}]
    /\ rb_result = "ok"
    /\ rb_introduced = 0
    /\ rb_inserted = [b \in Branches |-> {}]

\* the transport calls insert_blob / insert_tree with the object id
RemoteInsert(b, id) ==
    /\ fault = "none"
    /\ LET r == rb_insert_object(BranchState(b), id, tree_children[id])
       IN  /\ objdir' = r.objdir
           /\ rc' = r.rc
           /\ fault' = r.fault
           /\ rb_result' = r.result
           /\ missing_objects' = [missing_objects EXCEPT ![b] = r.missing]
           /\ incomplete_objects' = [incomplete_objects EXCEPT ![b] = r.incomplete]
           /\ complete_objects' = [complete_objects EXCEPT ![b] = r.complete]
           /\ rb_inserted' = [rb_inserted EXCEPT ![b] =
                                 IF r.result = "ok" THEN @ \cup {id} ELSE @]
    /\ UNCHANGED <<tree_children, rb_commit, rb_introduced>>

\* the transport calls introduce_commit
RemoteIntroduce(b, root_id) ==
    /\ fault = "none"
    /\ rb_introduced < MaxIntroduce
    /\ LET r == introduce_commit(BranchState(b), root_id)
       IN  /\ objdir' = r.objdir
           /\ rc' = r.rc
           /\ fault' = r.fault
           /\ rb_result' = r.result
           /\ missing_objects' = [missing_objects EXCEPT ![b] = r.missing]
           /\ incomplete_objects' = [incomplete_objects EXCEPT ![b] = r.incomplete]
           /\ complete_objects' = [complete_objects EXCEPT ![b] = r.complete]
    /\ rb_commit' = [rb_commit EXCEPT ![b] = root_id]
    /\ rb_introduced' = rb_introduced + 1
    /\ rb_inserted' = [rb_inserted EXCEPT ![b] = {}]
    /\ UNCHANGED <<tree_children>>

(***************************************************************************)
(* Directory, Index and Branch::RootOp (src/src/directory.cpp,             *)
(* src/src/branch/root_op.h).  An ObjectId is modelled by the content it   *)
(* is the hash of: SHA-256 is taken to be free of collisions.  A Directory *)
(* is a function filename -> user -> VersionedObject on the names and      *)
(* users it holds.                                                         *)
(***************************************************************************)
Users == {1, 2}

Names == {1, 2}

BlobContents == {1}

\* the number of commits a behaviour makes
MaxCommits == 4
\* the nesting of directories and the subdirectories of one tree are bounded
MaxDepth == 1
MaxSubdirs == 1
\* the users who nest their previous root into the new tree, and those who
\* take over the directory of another user's branch
Authors == {1}
Followers == {2}

ZeroVersions == [w \in Users |-> 0]

\* Blob::calculate_id
BlobId(k) == [tag |-> "Blob", blob |-> k, dir |-> << >>]

\* Directory::calculate_id (directory.cpp lines 9-27): tag, names, users, ids, versions
calculate_id(d) == [tag |-> "Directory", blob |-> 0, dir |-> d]

EmptyDirectory == << >>

\* Directory::maybe_load
IsDirectory(id) == id.tag = "Directory"

\* VersionVector::merge: pointwise maximum
Merge(a, b) == [w \in Users |-> IF a[w] >= b[w] THEN a[w] ELSE b[w]]

\* the entries of a directory in iteration order (filename, then user)
RECURSIVE SortedSeq(_)
SortedSeq(S) == IF S = {} THEN << >> ELSE <<Min(S)>> \o SortedSeq(S \ {Min(S)})

RECURSIVE Flatten(_)
Flatten(ss) == IF ss = << >> THEN << >> ELSE Head(ss) \o Flatten(Tail(ss))

Entries(d) ==
    Flatten([i \in 1..Len(SortedSeq(DOMAIN d)) |->
        LET n == SortedSeq(DOMAIN d)[i]
            us == SortedSeq(DOMAIN d[n])
        IN  [j \in 1..Len(us) |-> d[n][us[j]]]])

\* Directory::calculate_version_vector_union (directory.cpp lines 29-40)
RECURSIVE MergeAll(_, _)
MergeAll(result, es) ==
    IF es = << >> THEN result ELSE MergeAll(Merge(result, Head(es).versions), Tail(es))

calculate_version_vector_union(d) == MergeAll(ZeroVersions, Entries(d))

\* Directory::for_each_unique_child: the child ids, each once, in entry order
RECURSIVE Unique(_, _)
Unique(es, seen) ==
    IF es = << >> THEN << >>
    ELSE IF Head(es).id \in seen THEN Unique(Tail(es), seen)
    ELSE <<Head(es).id>> \o Unique(Tail(es), seen \cup {Head(es).id})

unique_children(d) == Unique(Entries(d), {})

\* Directory::insert(name, user, versioned_object)
DirInsert(d, name, w, vobj) ==
    [n \in DOMAIN d \cup {name} |->
        IF n # name THEN d[n]
        ELSE [x \in (IF n \in DOMAIN d THEN DOMAIN d[n] ELSE {}) \cup {w} |->
                 IF x = w THEN vobj ELSE d[n][x]]]

\* Directory::erase of the entry of user w under name
DirErase(d, name, w) ==
    LET rest == [x \in DOMAIN d[name] \ {w} |-> d[name][x]]
    IN  [n \in (IF DOMAIN rest = {} THEN DOMAIN d \ {name} ELSE DOMAIN d) |->
            IF n = name THEN rest ELSE d[n]]

\* Branch::RootOp::increment (root_op.h lines 55-57)
increment(vv, this_user_id, original_commit) ==
    [vv EXCEPT ![this_user_id] = original_commit.versions[this_user_id] + 1]

(***************************************************************************)
(* The Index and the stores are not among the sources; they follow         *)
(* sections 3, 4.2 and 4.5 of the specification.  A handler's state x has  *)
(* the fields block_store, edges, commits, error and log, the list of the  *)
(* store and index operations it has made so far, and failing, the kind of *)
(* operation whose first call raises an I/O error (section 7).             *)
(***************************************************************************)
Logged(x, op, id) ==
    [x EXCEPT !.log = Append(@, [op |-> op, id |-> id,
                                 edges |-> x.edges, block_store |-> x.block_store])]

\* the kinds of store and index calls of a commit; "none": no call fails
FailOps == {"none", "save", "insert_object", "set_version_vector",
            "load", "remove_object", "remove"}

\* a call of kind op: skipped once the handler has thrown, throwing when it is
\* the call that fails, and having its effect y otherwise
Try(x, op, y) ==
    IF x.error # "none" THEN x
    ELSE IF x.failing = op THEN [x EXCEPT !.error = "IoError"]
    ELSE y

\* Directory::save: writes the blocks of the tree that the store does not hold
DirectorySave(x, d) ==
    Try(x, "save",
        Logged([x EXCEPT !.block_store =
                   @ \cup {calculate_id(d)} \cup {Entries(d)[i].id : i \in 1..Len(Entries(d))}],
               "save", calculate_id(d)))

\* Index::insert_object: the self edge anchors the root of the user's branch
IndexInsertObject(x, user, obj_id, parent_id) ==
    Try(x, "insert_object",
        Logged([x EXCEPT !.edges = @ \cup {<<user, obj_id, parent_id>>},
                         !.commits[user].id = IF obj_id = parent_id THEN obj_id ELSE @],
               "insert_object", obj_id))

\* Index::remove_object
IndexRemoveObject(x, user, obj_id, parent_id) ==
    Try(x, "remove_object",
        Logged([x EXCEPT !.edges = @ \ {<<user, obj_id, parent_id>>}], "remove_object", obj_id))

someone_has_Nobody(x, obj_id) == FALSE

\* Index::someone_has
someone_has(x, obj_id) == \E e \in x.edges : e[2] = obj_id

\* Index::set_version_vector
IndexSetVersionVector(x, user, vv) ==
    Try(x, "set_version_vector", [x EXCEPT !.commits[user].versions = vv])

\* BlockStore::load: fails when the store does not hold the block
BlockStoreLoad(x, obj_id) ==
    Try(x, "load", IF obj_id \in x.block_store THEN x ELSE [x EXCEPT !.error = "Missing"])

\* ObjectStore::remove
ObjstoreRemove(x, obj_id) ==
    Try(x, "remove", Logged([x EXCEPT !.block_store = @ \ {obj_id}], "remove", obj_id))

\* Branch::RootOp::remove_recursive (root_op.h lines 59-74)
RECURSIVE remove_recursive(_, _, _, _)
RECURSIVE RemoveChildren(_, _, _, _)
remove_recursive(x, user, obj_id, parent_id) ==
    IF x.error # "none" THEN x
    ELSE LET x1 == IndexRemoveObject(x, user, obj_id, parent_id)
         IN  IF x1.error # "none" \/ someone_has(x1, obj_id) THEN x1
             ELSE LET x2 == BlockStoreLoad(x1, obj_id)
                      x3 == IF IsDirectory(obj_id)
                            THEN RemoveChildren(x2, user, unique_children(obj_id.dir), obj_id)
                            ELSE x2
                  IN  ObjstoreRemove(x3, obj_id)

RemoveChildren(x, user, chs, obj_id) ==
    IF chs = << >> THEN x
    ELSE RemoveChildren(remove_recursive(x, user, Head(chs), obj_id), user, Tail(chs), obj_id)

RECURSIVE InsertChildren(_, _, _, _)
InsertChildren(x, user, chs, new_id) ==
    IF chs = << >> THEN x
    ELSE InsertChildren(IndexInsertObject(x, user, Head(chs), new_id), user, Tail(chs), new_id)

NothingToCommit_Never(old_id, new_id) == FALSE

\* root_op.h line 31: a tree whose id is the original commit's is not committed
NothingToCommit(old_id, new_id) == old_id = new_id

\* root_op.h lines 33-44: save, insert the edges of the new root, publish the versions
PublishNewRoot(x, user, tree, new_id) ==
    IndexSetVersionVector(
        IndexInsertObject(
            InsertChildren(DirectorySave(x, tree), user, unique_children(tree), new_id),
            user, new_id, new_id),
        user, calculate_version_vector_union(tree))

CommitSteps_RemoveFirst(x, user, tree, old_id, new_id) ==
    PublishNewRoot(remove_recursive(x, user, old_id, old_id), user, tree, new_id)

\* root_op.h lines 33-46: the new root is published, then the old one is removed
CommitSteps(x, user, tree, old_id, new_id) ==
    remove_recursive(PublishNewRoot(x, user, tree, new_id), user, old_id, old_id)

\* Branch::RootOp::commit (root_op.h lines 27-47)
commit(x, user, tree, original_commit) ==
    LET new_id == calculate_id(tree)
        old_id == original_commit.id
    IN  IF NothingToCommit(old_id, new_id) THEN [x EXCEPT !.ret = "false"]
        ELSE LET x1 == CommitSteps(x, user, tree, old_id, new_id)
             IN  [x1 EXCEPT !.ret = IF x1.error = "none" THEN "true" ELSE "error"]

ClosedOp == [open |-> FALSE, tree |-> EmptyDirectory,
             original |-> [id |-> calculate_id(EmptyDirectory), versions |-> ZeroVersions]]

NoReturn == [user |-> 0, value |-> "none", tree |-> EmptyDirectory,
             before |-> ClosedOp.original]

\* every user's branch starts at the empty directory, anchored by its self edge
InitRootVars ==
    /\ block_store = {calculate_id(EmptyDirectory)}
    /\ edges = {<<u, calculate_id(EmptyDirectory), calculate_id(EmptyDirectory)>> : u \in Users}
    /\ commits = [u \in Users |-> [id |-> calculate_id(EmptyDirectory), versions |-> ZeroVersions]]
    /\ rootop = [u \in Users |-> ClosedOp]
    /\ ret = NoReturn
    /\ steps = << >>
    /\ ncommits = 0

RootIdle ==
    /\ block_store = {}
    /\ edges = {}
    /\ commits = [u \in Users |-> ClosedOp.original]
    /\ rootop = [u \in Users |-> ClosedOp]
    /\ ret = NoReturn
    /\ steps = << >>
    /\ ncommits = 0

\* Branch::RootOp::RootOp (root_op.h lines 9-21): load the root of the user's commit
RootBegin(u) ==
    /\ \A w \in Users : ~rootop[w].open
    /\ ncommits < MaxCommits
    \* a behaviour is followed up to its first failed commit
    /\ ret.value # "error"
    /\ commits[u].id \in block_store
    /\ IsDirectory(commits[u].id)
    /\ rootop' = [rootop EXCEPT ![u] =
                     [open |-> TRUE, tree |-> commits[u].id.dir, original |-> commits[u]]]
    /\ ret' = NoReturn
    /\ steps' = << >>
    /\ UNCHANGED <<block_store, edges, commits, ncommits>>

\* the nesting depth of a tree, and the number of its subdirectory entries
RECURSIVE Depth(_)
Depth(id) ==
    IF ~IsDirectory(id) \/ id.dir = << >> THEN 0
    ELSE LET es == Entries(id.dir)
             ds == {IF IsDirectory(es[i].id) THEN Depth(es[i].id) + 1 ELSE 0 : i \in 1..Len(es)}
         IN  CHOOSE m \in ds : \A k \in ds : k <= m

Subdirs(d) == Cardinality({i \in 1..Len(Entries(d)) : IsDirectory(Entries(d)[i].id)})

\* tree().insert: the user writes an entry whose versions increment() has bumped
RootInsert(u, name, child) ==
    /\ rootop[u].open
    /\ \/ child.tag = "Blob"
       \/ /\ child = rootop[u].original.id
          /\ Depth(child) < MaxDepth
          /\ Subdirs(rootop[u].tree) < MaxSubdirs
    /\ rootop' = [rootop EXCEPT ![u].tree =
                     DirInsert(@, name, u,
                         [id |-> child,
                          versions |-> increment(rootop[u].original.versions, u,
                                                 rootop[u].original)])]
    /\ UNCHANGED <<block_store, edges, commits, ret, steps, ncommits>>

\* tree().erase
RootErase(u, name, w) ==
    /\ rootop[u].open
    /\ name \in DOMAIN rootop[u].tree
    /\ w \in DOMAIN rootop[u].tree[name]
    /\ rootop' = [rootop EXCEPT ![u].tree = DirErase(@, name, w)]
    /\ UNCHANGED <<block_store, edges, commits, ret, steps, ncommits>>

\* the user takes over the directory of another user's branch
RootAdopt(u, v) ==
    /\ rootop[u].open
    /\ v # u
    /\ commits[v].id \in block_store
    /\ rootop[u].tree # commits[v].id.dir
    /\ rootop' = [rootop EXCEPT ![u].tree = commits[v].id.dir]
    /\ UNCHANGED <<block_store, edges, commits, ret, steps, ncommits>>

\* Branch::RootOp::commit, which ends the operation
RootCommit(u, failing) ==
    /\ rootop[u].open
    /\ LET x0 == [block_store |-> block_store, edges |-> edges, commits |-> commits,
                  error |-> "none", log |-> << >>, ret |-> "none", failing |-> failing]
           x == commit(x0, u, rootop[u].tree, rootop[u].original)
       IN  /\ block_store' = x.block_store
           /\ edges' = x.edges
           /\ commits' = x.commits
           /\ steps' = x.log
           /\ ret' = [user |-> u, value |-> x.ret, tree |-> rootop[u].tree,
                      before |-> rootop[u].original]
    /\ rootop' = [rootop EXCEPT ![u] = ClosedOp]
    /\ ncommits' = ncommits + 1

\* the operation is dropped without commit
RootDrop(u) ==
    /\ rootop[u].open
    /\ rootop' = [rootop EXCEPT ![u] = ClosedOp]
    /\ UNCHANGED <<block_store, edges, commits, ret, steps, ncommits>>

(***************************************************************************)
(* The three specifications.                                               *)
(***************************************************************************)
InitSnapshot ==
    /\ tree_children \in Dags
    /\ \E p \in Objects \cup {0} :
          LET s == IF p = 0 THEN EmptyStore ELSE PinnedStore(tree_children, p)
          IN  objdir = s.objdir /\ rc = s.rc /\ fault = s.fault
    /\ InitSnapshotVars
    /\ RemoteIdle
    /\ RootIdle

NextSnapshot ==
    \/ \E id \in Objects : SnapshotDeliver(id) /\ UNCHANGED <<rb_vars, root_vars>>
    \/ SnapshotForget /\ UNCHANGED <<rb_vars, root_vars>>
    \/ SnapshotClone /\ UNCHANGED <<rb_vars, root_vars>>
    \/ SnapshotCloneForget /\ UNCHANGED <<rb_vars, root_vars>>

SpecSnapshot == InitSnapshot /\ [][NextSnapshot]_vars

InitRemote ==
    /\ tree_children \in Dags
    /\ objdir = {}
    /\ rc = ZeroRc
    /\ fault = "none"
    /\ InitRemoteVars
    /\ SnapshotIdle
    /\ RootIdle

NextRemote ==
    \/ \E b \in Branches, id \in Objects :
          RemoteInsert(b, id) /\ UNCHANGED <<snap_vars, root_vars>>
    \/ \E b \in Branches, c \in CommitRoots :
          RemoteIntroduce(b, c) /\ UNCHANGED <<snap_vars, root_vars>>

SpecRemote == InitRemote /\ [][NextRemote]_vars

InitRoot ==
    /\ StoreIdle
    /\ SnapshotIdle
    /\ RemoteIdle
    /\ InitRootVars

NextRoot ==
    \/ \E u \in Users : RootBegin(u) /\ UNCHANGED <<store_vars, snap_vars, rb_vars>>
    \/ \E u \in Users, n \in Names, k \in BlobContents :
          RootInsert(u, n, BlobId(k)) /\ UNCHANGED <<store_vars, snap_vars, rb_vars>>
    \/ \E u \in Authors, n \in Names :
          RootInsert(u, n, rootop[u].original.id) /\ UNCHANGED <<store_vars, snap_vars, rb_vars>>
    \/ \E u \in Users, n \in Names, w \in Users :
          RootErase(u, n, w) /\ UNCHANGED <<store_vars, snap_vars, rb_vars>>
    \/ \E u \in Followers, v \in Users : RootAdopt(u, v) /\ UNCHANGED <<store_vars, snap_vars, rb_vars>>
    \/ \E u \in Users, failing \in FailOps :
          RootCommit(u, failing) /\ UNCHANGED <<store_vars, snap_vars, rb_vars>>
    \/ \E u \in Users : RootDrop(u) /\ UNCHANGED <<store_vars, snap_vars, rb_vars>>

SpecRoot == InitRoot /\ [][NextRoot]_vars

(***************************************************************************)
(* Claims about Snapshot, checked under SpecSnapshot.                      *)
(***************************************************************************)
\* every object of the commit has been delivered once, parents before children,
\* to a Snapshot created over a store that pinned nothing
DeliveredInOrder ==
    /\ phase = "live"
    /\ clone_phase = "none"
    /\ rc0 = ZeroRc
    /\ topo
    /\ delivered = {Root} \cup Descendants(tree_children, Root)

\* C1: once the root and all of its descendants have been inserted, in an order
\* that respects the topology, the root's node is Complete, the root's refcount
\* is recursive = 1 and direct = 0, and _nodes holds no node but the root's.
C1_SnapshotCompletion ==
    DeliveredInOrder =>
        /\ fault = "none"
        /\ DOMAIN nodes = {Root}
        /\ nodes[Root].type = "Complete"
        /\ rc[Root] = [direct |-> 0, recursive |-> 1]

\* C2: after any sequence of insert_object calls on a freshly created Snapshot
\* followed by forget(), every object's (direct, recursive) pair is what it was
\* before the Snapshot was created; stated for a store that pinned nothing then,
\* so that the pin left behind is one the Snapshot took.
C2_ForgetClean ==
    (phase = "forgotten" /\ clone_phase = "none" /\ rc0 = ZeroRc)
        => (fault = "none" /\ rc = rc0)

\* C9: in no state between insert_object calls does a key of _nodes have a
\* block whose direct and recursive counts are both zero.
C9_SnapshotSafety ==
    (phase = "live" /\ fault = "none") =>
        \A id \in DOMAIN nodes : id \in objdir => ~BothAreZero(Store, id)

\* C11: Snapshot::insert_object for an id that is no key of _nodes, or whose
\* node is Incomplete or Complete, changes neither _nodes nor any refcount.
C11_InsertIdempotent ==
    [][\A id \in Objects :
          (SnapshotDeliver(id) /\ (id \notin DOMAIN nodes \/ nodes[id].type # "Missing"))
          => UNCHANGED <<nodes, rc>>]_vars

\* the root was delivered a second time, to a node that was no longer Missing
C11_Witness ==
    /\ phase = "live"
    /\ fault = "none"
    /\ delivered = {Root}
    /\ ~topo
    /\ nodes[Root].type = "Incomplete"

\* the pins clone() takes: one direct per Incomplete node, one recursive per
\* Complete node of the source
ClonePins(id) ==
    [direct    |-> IF id \in DOMAIN nodes /\ nodes[id].type = "Incomplete" THEN 1 ELSE 0,
     recursive |-> IF id \in DOMAIN nodes /\ nodes[id].type = "Complete" THEN 1 ELSE 0]

\* C16: clone() yields a Snapshot whose _nodes equals the source's for every id,
\* the commit root included, and takes one direct pin per Incomplete and one
\* recursive pin per Complete node; forgetting the clone right away returns every
\* refcount to its value before clone().
C16_CloneIndependent ==
    [][/\ SnapshotClone =>
            /\ clone_nodes' = nodes
            /\ \A id \in Objects :
                  /\ rc'[id].direct = rc[id].direct + ClonePins(id).direct
                  /\ rc'[id].recursive = rc[id].recursive + ClonePins(id).recursive
       /\ (SnapshotCloneForget /\ clone_fresh) => (fault' = "none" /\ rc' = rc1)]_vars

\* C18: whenever notify_parent_that_child_completed runs, the child is in
\* exactly one of the parent's children.missing and children.incomplete: the
\* assertion cnt == 1 never fails.
C18_NotifyAssertion == fault # "assert_cnt"

\* the order of the lifecycle Missing -> Incomplete -> Complete
TypeRank(t) == CASE t = "Missing" -> 0 [] t = "Incomplete" -> 1 [] OTHER -> 2

DirectPins(id) == rc[id].direct - rc0[id].direct

RecursivePins(id) == rc[id].recursive - rc0[id].recursive

\* C22: in every state of a live Snapshot the type of a node matches the pin
\* taken for it: an Incomplete node has exactly one direct pin and no recursive
\* pin, a Complete node has a recursive pin and no direct pin, so that forget
\* releases the kind of pin that was taken; also for a node inserted with a
\* non-empty children set whose children are all complete in the store.
C22_TypeMatchesPin ==
    (phase = "live" /\ clone_phase = "none" /\ fault = "none") =>
        \A id \in DOMAIN nodes :
            /\ nodes[id].type = "Incomplete" =>
                   DirectPins(id) = 1 /\ RecursivePins(id) = 0
            /\ nodes[id].type = "Complete" =>
                   DirectPins(id) = 0 /\ RecursivePins(id) >= 1

(***************************************************************************)
(* Claims about RemoteBranch, checked under SpecRemote.                    *)
(***************************************************************************)
\* C3: no call of insert_object or introduce_commit decrements a direct or
\* recursive count below zero: every flat_remove and deep_remove that
\* introduce_commit issues releases a pin that insert_object took.
C3_RefcountNonNegative == fault # "RefcountUnderflow"

\* every object of the commit of branch b has been inserted into branch b
AllInserted(b) ==
    /\ fault = "none"
    /\ rb_inserted[b] = {rb_commit[b]} \cup Descendants(tree_children, rb_commit[b])

\* C4: once every object of the commit's DAG has been inserted, the completion
\* cascade has promoted every ancestor: the root is in complete_objects and
\* missing_objects and incomplete_objects are empty.
C4_CompletionCascade ==
    \A b \in Branches :
        AllInserted(b) =>
            /\ rb_commit[b] \in complete_objects[b]
            /\ DOMAIN missing_objects[b] = {}
            /\ DOMAIN incomplete_objects[b] = {}

\* C12: RemoteBranch::insert_object with an id that is no key of
\* missing_objects fails with an error and leaves the three collections, the
\* stored blocks and all refcounts as they were.
C12_UnexpectedRejected ==
    [][\A b \in Branches, id \in Objects :
          (RemoteInsert(b, id) /\ id \notin DOMAIN missing_objects[b])
          => /\ rb_result' # "ok"
             /\ UNCHANGED <<missing_objects, incomplete_objects, complete_objects,
                            objdir, rc>>]_vars

\* an object nobody expected was offered to a branch that had received nothing
C12_Witness ==
    /\ rb_result = "out_of_range"
    /\ rb_introduced = 0
    /\ \A b \in Branches : rb_inserted[b] = {}

\* C13: a second RemoteBranch::insert_object of an object the branch has
\* received and holds in complete_objects succeeds and changes nothing.
C13_DuplicateNoOp ==
    [][\A b \in Branches, id \in Objects :
          (RemoteInsert(b, id) /\ id \in rb_inserted[b] /\ id \in complete_objects[b])
          => /\ rb_result' = "ok"
             /\ UNCHANGED <<missing_objects, incomplete_objects, complete_objects, rc>>]_vars

\* C14: after introduce_commit(c) the commit is c, missing_objects is exactly
\* {c.root_id -> {}}, incomplete_objects and complete_objects are empty, and the
\* store is what one flat_remove of each object that was incomplete and one
\* deep_remove of each object that was complete make of it, with no failure.
C14_IntroduceResets ==
    [][\A b \in Branches, c \in CommitRoots :
          RemoteIntroduce(b, c)
          => /\ rb_commit'[b] = c
             /\ missing_objects'[b] = [k \in {c} |-> {}]
             /\ incomplete_objects'[b] = << >>
             /\ complete_objects'[b] = {}
             /\ fault' = "none"
             /\ LET s == DeepRemoveEach(FlatRemoveEach(Store, DOMAIN incomplete_objects[b]),
                                       complete_objects[b])
                IN  rc' = s.rc /\ objdir' = s.objdir]_vars

\* the blobs that the trees of the two branches' commits share
SharedBlobs ==
    {h \in Objects : /\ tree_children[h] = {}
                     /\ \A b \in Branches : h \in Descendants(tree_children, rb_commit[b])}

\* both branches have completed the commit they were created with, the two
\* roots are distinct objects neither of which lies in the other's tree
BothCompleted ==
    /\ fault = "none"
    /\ rb_introduced = 0
    /\ \A b \in Branches : rb_commit[b] \in complete_objects[b]
    /\ \A b, d \in Branches : rb_commit[b] \notin Descendants(tree_children, rb_commit[d])

\* C15: once two branches whose commits share a blob hB have both completed,
\* each root has recursive = 1 and hB has recursive >= 2; unwinding one branch
\* then leaves hB in the store with a positive count, and the other branch's
\* root complete.
C15_SharedChild ==
    [][/\ BothCompleted =>
            /\ \A b \in Branches : rc[rb_commit[b]].recursive = 1
            /\ \A h \in SharedBlobs : rc[h].recursive >= 2
       /\ \A b \in Branches, c \in CommitRoots :
            (BothCompleted /\ RemoteIntroduce(b, c)) =>
               /\ \A h \in SharedBlobs : h \in objdir' /\ rc'[h].recursive > 0
               /\ \A d \in Branches \ {b} :
                     rb_commit[d] \in objdir' /\ rc'[rb_commit[d]].recursive > 0]_vars

\* C21: between RemoteBranch operations, whatever insert_object and
\* introduce_commit calls this and the other branches of the store have made,
\* every key of incomplete_objects exists in the object store and every member
\* of complete_objects exists with a recursive count > 0: the assertions of
\* RemoteBranch::sanity_check hold for every branch.
C21_SanityCheck == fault = "none" => \A b \in Branches : sanity_check(BranchState(b))

\* every parent recorded for a missing object is an incomplete object that
\* still waits for it
ParentsClosed(b) ==
    \A c \in DOMAIN missing_objects[b] : \A p \in missing_objects[b][c] :
        p \in DOMAIN incomplete_objects[b] /\ c \in incomplete_objects[b][p]

\* no id is in two of the three collections of a branch
CollectionsDisjoint(b) ==
    /\ DOMAIN missing_objects[b] \cap DOMAIN incomplete_objects[b] = {}
    /\ DOMAIN missing_objects[b] \cap complete_objects[b] = {}
    /\ DOMAIN incomplete_objects[b] \cap complete_objects[b] = {}

\* an insert_object of an expected object ends without an exception: the
\* lookup _incomplete_objects.at(parent) finds each parent
ParentLookupSucceeds ==
    \A b \in Branches, id \in Objects :
        (RemoteInsert(b, id) /\ id \in DOMAIN missing_objects[b]) => rb_result' = "ok"

\* C23: in every reachable RemoteBranch state each parent p recorded in
\* missing_objects[c] is a key of incomplete_objects with c among
\* incomplete_objects[p], so insert_object never fails at the lookup of a
\* parent, and the keys of missing_objects, the keys of incomplete_objects and
\* complete_objects are pairwise disjoint.
C23_ParentsClosed ==
    /\ [](fault = "none" => \A b \in Branches : ParentsClosed(b) /\ CollectionsDisjoint(b))
    /\ [][ParentLookupSucceeds]_vars

(***************************************************************************)
(* Claims about Branch::RootOp and the Index, checked under SpecRoot.      *)
(***************************************************************************)
\* C5: after a commit that returns true the branch's version vector is
\* pointwise >= the one before it and the committing user's counter is
\* exactly one greater.
C5_CommitMonotone ==
    ret.value = "true" =>
        /\ \A w \in Users : commits[ret.user].versions[w] >= ret.before.versions[w]
        /\ commits[ret.user].versions[ret.user] = ret.before.versions[ret.user] + 1

\* C6: between commits, none of which failed, every edge (u, c, p) has p
\* present in the store, and p is the root of u's branch or the child of some
\* edge of u.
C6_IndexClosure ==
    ret.value # "error" =>
        \A e \in edges :
            /\ e[3] \in block_store
            /\ e[3] = commits[e[1]].id \/ \E f \in edges : f[1] = e[1] /\ f[2] = e[3]

\* the objects reachable from an object through directory entries
RECURSIVE ReachableFrom(_)
ReachableFrom(id) ==
    {id} \cup (IF IsDirectory(id)
               THEN UNION {ReachableFrom(Entries(id.dir)[i].id) : i \in 1..Len(Entries(id.dir))}
               ELSE {})

Live == UNION {ReachableFrom(commits[u].id) : u \in Users}

\* C7: after a commit that sets a branch's root to the empty directory, every
\* block that no branch root reaches has been removed from the store and is
\* the child of no edge.
C7_NoGarbage ==
    (ret.value = "true" /\ ret.tree = EmptyDirectory) =>
        /\ block_store \subseteq Live
        /\ \A e \in edges : e[2] \in Live

IsRemoval(step) == step.op \in {"remove_object", "remove"}

C10_EmptyCommitNoOp ==
    [][\A u \in Users :
          (rootop[u].open /\ ~rootop'[u].open /\ ret'.user = u
             /\ calculate_id(rootop[u].tree) = rootop[u].original.id)
          => (ret'.value = "false" /\ UNCHANGED <<block_store, edges, commits>>)]_vars

\* a commit returned false on a root that holds entries
C10_Witness ==
    /\ ret.value = "false"
    /\ ret.tree # EmptyDirectory
    /\ edges # {}

\* C17: a RootOp dropped without commit leaves the Index and the stores as
\* they were, and a RootOp whose commit fails part-way leaves no edge and no
\* block that it added.
C17_ExitPaths ==
    [][\A u \in Users :
          /\ RootDrop(u) => UNCHANGED <<block_store, edges, commits>>
          /\ (rootop[u].open /\ ~rootop'[u].open /\ ret'.user = u /\ ret'.value = "error")
                => (edges' \subseteq edges /\ block_store' \subseteq block_store)]_vars

\* C19: remove_recursive removes a block only when no edge of any user names
\* the object as child, and an object that an edge still names is retained
\* together with all of its descendants.
C19_ReferencedRetained ==
    /\ \A i \in 1..Len(steps) :
          steps[i].op = "remove" => \A e \in steps[i].edges : e[2] # steps[i].id
    /\ \A e \in edges : ReachableFrom(e[2]) \subseteq block_store

\* a commit removed the old root's block and kept a subdirectory of it,
\* with its entries, because another edge still names the subdirectory
C19_Witness ==
    /\ ret.value = "true"
    /\ \E i, j \in 1..Len(steps) :
          /\ steps[i].op = "remove_object"
          /\ IsDirectory(steps[i].id) /\ steps[i].id.dir # EmptyDirectory
          /\ \E e \in steps[i].edges : e[2] = steps[i].id
          /\ i < j /\ steps[j].op = "remove"

====
